---------------------------- MODULE Spec2Model ----------------------------
(***************************************************************************)
(* State-machine model of the valentine-surprise page:                     *)
(*   - the runaway NO button controller (createRunawayNo) in its two       *)
(*     source versions, src/ui/buttons.js and the second buttons module    *)
(*     kept in src/unnamed/part_000,                                       *)
(*   - the event handlers wired by setupButtons and main.js,               *)
(*   - the modal and its audio element (src/ui/modal.js),                  *)
(*   - the hearts FX emitter (createHeartsFx),                             *)
(*   - the 3D heart scene (src/three/heartParticles.js).                   *)
(*                                                                         *)
(* Numbers are fixed point: pixels are whole, pointer coordinates are in   *)
(* half pixels (so that a pointer can sit exactly on a centre), scale is   *)
(* in 1/ScaleOne, directions in 1/Unit, time in milliseconds.              *)
(***************************************************************************)
EXTENDS Integers, Naturals, Sequences, FiniteSets, TLC

VARIABLES
    variant,    \* which buttons module is loaded: "buttons" or "part_000"
    now,        \* performance.now(), ms
    viewport,   \* [w, h]: window.innerWidth / innerHeight
    noCtrl,     \* closure state of createRunawayNo
    modal,      \* closure state of createModal plus the rendered root
    audio,      \* the HTMLAudioElement and its pending play() promise
    fx,         \* closure state of createHeartsFx
    heart,      \* closure state of createHeartScene
    lastOp,     \* history: the handler that ran last and the branch it took
    steps       \* history: the number of events handled so far

vars == <<variant, now, viewport, noCtrl, modal, audio, fx, heart, lastOp, steps>>

----------------------------------------------------------------------------
(* Bounds of the model *)

MaxNow == 360
MaxSteps == 4
MaxCtlSteps == 4
MaxHeartSteps == 6
MaxModalSteps == 6
MaxSpawn == 1

----------------------------------------------------------------------------
(* Arithmetic helpers *)

Min2(a, b) == IF a <= b THEN a ELSE b
Max2(a, b) == IF a >= b THEN a ELSE b
Abs(a) == IF a >= 0 THEN a ELSE -a

\* a / b rounded to the nearest integer (b > 0), the stand-in for float division
RoundDiv(a, b) ==
    IF a >= 0 THEN (2 * a + b) \div (2 * b) ELSE -((2 * (-a) + b) \div (2 * b))

RECURSIVE isqrtIn(_, _, _)
isqrtIn(n, lo, hi) ==
    IF lo >= hi THEN lo
    ELSE LET mid == (lo + hi + 1) \div 2
         IN  IF mid * mid <= n THEN isqrtIn(n, mid, hi) ELSE isqrtIn(n, lo, mid - 1)

\* floor(sqrt(n)) for 0 <= n < 2^30: Math.hypot and Math.sqrt
isqrt(n) == isqrtIn(n, 0, 32767)

hypot(a, b) == isqrt(a * a + b * b)

----------------------------------------------------------------------------
(* NO controller: constants of createRunawayNo *)

ScaleOne == 10000          \* scale = 1.0
minScale == 5500           \* 0.55
hoverShrinkPct == 90       \* hoverShrink = 0.90
pressShrinkPct == 85       \* pressShrink = 0.85
throttleMs == 120
padding == 12
Unit == 1000               \* a unit vector has length Unit
jitterAmp == 350           \* 0.35
dangerMin == 120
dangerMax == 210
stepMin == 160
stepMax == 280
stepPct == 24              \* window.innerWidth * 0.24
\* the second buttons module (part_000)
P0_dangerMax == 200
P0_stepMax == 270

\* The button's layout box, as getBoundingClientRect reports it at scale 1
noBtnBox == [width |-> 100, height |-> 40]

\* Where normal layout flow puts the button (the page centres the button row)
LayoutLeft(vp) == vp.w \div 2 + 10
LayoutTop(vp) == vp.h \div 2 + 30

\* clamp with an off-by-one on the way in
clamp_drift(v, lo, hi) == Max2(lo, Min2(hi, v) - 1)

clamp(v, lo, hi) == Max2(lo, Min2(hi, v))

\* noBtn.getBoundingClientRect(): the box after the CSS transform scale(s)
\* about its centre; all zero while display is none
getRect(c, vp) ==
    IF c.hidden THEN [left |-> 0, top |-> 0, width |-> 0, height |-> 0]
    ELSE LET w == RoundDiv(noBtnBox.width * c.scale, ScaleOne)
             h == RoundDiv(noBtnBox.height * c.scale, ScaleOne)
             l == IF c.isFixed THEN c.left ELSE LayoutLeft(vp)
             t == IF c.isFixed THEN c.top ELSE LayoutTop(vp)
         IN  [left |-> l + (noBtnBox.width - w) \div 2, top |-> t + (noBtnBox.height - h) \div 2,
              width |-> w, height |-> h]

\* bounds that forget the button's own footprint
boundsForRect_noFootprint(rect, vp) ==
    [minL |-> padding, minT |-> padding,
     maxL |-> vp.w - padding, maxT |-> vp.h - padding]

boundsForRect(rect, vp) ==
    [minL |-> padding, minT |-> padding,
     maxL |-> vp.w - rect.width - padding,
     maxT |-> vp.h - rect.height - padding]

\* shrinkHover without its hidden check
shrinkHover_always(c) ==
    [c EXCEPT !.scale = Max2(minScale, RoundDiv(c.scale * hoverShrinkPct, 100))]

shrinkHover(c) ==
    IF c.hidden THEN c
    ELSE [c EXCEPT !.scale = Max2(minScale, RoundDiv(c.scale * hoverShrinkPct, 100))]

\* shrinkPress without the floor at minScale
shrinkPress_unfloored(c) ==
    IF c.hidden THEN c
    ELSE [c EXCEPT !.scale = RoundDiv(c.scale * pressShrinkPct, 100)]

shrinkPress(c) ==
    IF c.hidden THEN c
    ELSE [c EXCEPT !.scale = Max2(minScale, RoundDiv(c.scale * pressShrinkPct, 100))]

\* hide that also drops the pinned flag
hide_unpins(c) == [c EXCEPT !.hidden = TRUE, !.isFixed = FALSE]

hide(c) == [c EXCEPT !.hidden = TRUE]

\* restore that forgets to leave the fixed position
restore_staysFixed(c) ==
    [c EXCEPT !.hidden = FALSE, !.placeholder = FALSE, !.scale = ScaleOne]

restore(c) ==
    [c EXCEPT !.hidden = FALSE, !.placeholder = FALSE, !.isFixed = FALSE,
              !.scale = ScaleOne]

\* a pin that does not capture the rect
makeFixedIfNeeded_origin(c, vp) ==
    IF c.isFixed \/ c.hidden THEN c
    ELSE [c EXCEPT !.placeholder = TRUE, !.isFixed = TRUE]

makeFixedIfNeeded(c, vp) ==
    IF c.isFixed \/ c.hidden THEN c
    ELSE LET rect == getRect(c, vp)
         IN  [c EXCEPT !.placeholder = TRUE, !.left = rect.left, !.top = rect.top,
                       !.isFixed = TRUE]

reclamp(c, vp) ==
    IF ~c.isFixed \/ c.hidden THEN c
    ELSE LET b == boundsForRect(getRect(c, vp), vp)
         IN  [c EXCEPT !.left = clamp(c.left, b.minL, b.maxL),
                       !.top = clamp(c.top, b.minT, b.maxT)]

\* Twice the vector from the pointer (half pixels) to the rect's centre
dx0of(rect, px2) == 2 * rect.left + rect.width - px2
dy0of(rect, py2) == 2 * rect.top + rect.height - py2

\* a danger radius without its upper clamp, six widths wide
dangerRadius_wide(rect) == Max2(dangerMin, 6 * rect.width)

dangerRadius(rect) == Max2(dangerMin, Min2(dangerMax, 2 * rect.width))

\* dist > dangerRadius, on the doubled vector
isFar(rect, px2, py2, radius) ==
    LET dx0 == dx0of(rect, px2)
        dy0 == dy0of(rect, py2)
    IN  dx0 * dx0 + dy0 * dy0 > (2 * radius) * (2 * radius)

stepLen(vp, hi) == Min2(hi, Max2(stepMin, RoundDiv(vp.w * stepPct, 100)))

\* (Math.random() * 2 - 1) * 0.35 for Math.random() = r / Unit
jitter(r) == RoundDiv((2 * r - Unit) * jitterAmp, Unit)

\* The displacement <<dx * step, dy * step>>: the direction away from the
\* pointer, jittered, renormalised (len floored at 0.0001) and scaled
escapeStep(rect, px2, py2, rx, ry, step) ==
    LET dx0 == dx0of(rect, px2)
        dy0 == dy0of(rect, py2)
        dist == hypot(dx0, dy0)
        ux == IF dist = 0 THEN 0 ELSE RoundDiv(dx0 * Unit, dist)
        uy == IF dist = 0 THEN 0 ELSE RoundDiv(dy0 * Unit, dist)
        vx == ux + jitter(rx)
        vy == uy + jitter(ry)
        len == hypot(vx, vy)
        nx == IF len = 0 THEN 0 ELSE RoundDiv(vx * Unit, len)
        ny == IF len = 0 THEN 0 ELSE RoundDiv(vy * Unit, len)
    IN  <<RoundDiv(nx * step, Unit), RoundDiv(ny * step, Unit)>>

\* The branch runAwayFrom takes (src/ui/buttons.js)
runAwayBranch(c, px2, py2, force, t, vp) ==
    IF c.hidden THEN "hidden"
    ELSE IF ~force /\ t - c.lastMove < throttleMs THEN "throttled"
    ELSE LET c2 == makeFixedIfNeeded(c, vp)
         IN  IF ~force /\ isFar(getRect(c2, vp), px2, py2, dangerRadius(getRect(c2, vp)))
             THEN "far" ELSE "moved"

runAwayFrom(c, px2, py2, force, t, vp, rx, ry) ==
    IF c.hidden THEN c
    ELSE IF ~force /\ t - c.lastMove < throttleMs THEN c
    ELSE LET c2 == makeFixedIfNeeded([c EXCEPT !.lastMove = t], vp)
             rect == getRect(c2, vp)
         IN  IF ~force /\ isFar(rect, px2, py2, dangerRadius(rect)) THEN c2
             ELSE LET d == escapeStep(rect, px2, py2, rx, ry, stepLen(vp, stepMax))
                      b == boundsForRect(rect, vp)
                  IN  [c2 EXCEPT !.left = clamp(c2.left + d[1], b.minL, b.maxL),
                                 !.top = clamp(c2.top + d[2], b.minT, b.maxT)]


----------------------------------------------------------------------------
(* NO controller of the second buttons module (src/unnamed/part_000):      *)
(* no hidden flag, no scale, a stuck-in-a-corner recovery                  *)

P0_makeFixedIfNeeded(c, vp) ==
    IF c.isFixed THEN c
    ELSE LET rect == getRect(c, vp)
         IN  [c EXCEPT !.placeholder = TRUE, !.left = rect.left, !.top = rect.top,
                       !.isFixed = TRUE]

P0_reclamp(c, vp) ==
    IF ~c.isFixed THEN c
    ELSE LET b == boundsForRect(getRect(c, vp), vp)
         IN  [c EXCEPT !.left = clamp(c.left, b.minL, b.maxL),
                       !.top = clamp(c.top, b.minT, b.maxT)]

\* stuck: Math.abs(dx0) < 1 && Math.abs(dy0) < 1, on the doubled vector
P0_stuck(rect, px2, py2) ==
    Abs(dx0of(rect, px2)) < 2 /\ Abs(dy0of(rect, py2)) < 2

\* clamp(Math.random() * (hi - lo) + lo, lo, hi) for Math.random() = r / Unit
P0_randomIn(r, lo, hi) == clamp(RoundDiv(r * (hi - lo), Unit) + lo, lo, hi)

P0_dangerRadius(rect) == Max2(dangerMin, Min2(P0_dangerMax, 2 * rect.width))

P0_runAwayBranch(c, px2, py2, force, t, vp, modalOpen) ==
    IF ~force /\ t - c.lastMove < throttleMs THEN "throttled"
    ELSE IF modalOpen THEN "modal"
    ELSE LET rect == getRect(P0_makeFixedIfNeeded(c, vp), vp)
         IN  IF ~force /\ isFar(rect, px2, py2, P0_dangerRadius(rect)) THEN "far"
             ELSE IF P0_stuck(rect, px2, py2) THEN "stuck" ELSE "moved"

P0_runAwayFrom(c, px2, py2, force, t, vp, modalOpen, rx, ry, r3, r4) ==
    IF ~force /\ t - c.lastMove < throttleMs THEN c
    ELSE LET c1 == [c EXCEPT !.lastMove = t]
         IN  IF modalOpen THEN c1
             ELSE LET c2 == P0_makeFixedIfNeeded(c1, vp)
                      rect == getRect(c2, vp)
                  IN  IF ~force /\ isFar(rect, px2, py2, P0_dangerRadius(rect)) THEN c2
                      ELSE LET d == escapeStep(rect, px2, py2, rx, ry, stepLen(vp, P0_stepMax))
                               b == boundsForRect(rect, vp)
                           IN  IF P0_stuck(rect, px2, py2)
                               THEN [c2 EXCEPT !.left = P0_randomIn(r3, b.minL, b.maxL),
                                               !.top = P0_randomIn(r4, b.minT, b.maxT)]
                               ELSE [c2 EXCEPT !.left = clamp(c2.left + d[1], b.minL, b.maxL),
                                               !.top = clamp(c2.top + d[2], b.minT, b.maxT)]

----------------------------------------------------------------------------
(* Modal and audio (src/ui/modal.js)                                       *)
(*   modal.content: the dialog markup is in rootEl                         *)
(*   modal.label:   text of the rendered music button ("" without markup)  *)
(*   modal.timers:  due times of the cleanup timers close() has scheduled  *)
(*   audio.pending: the play() promise not yet settled and who awaits it:  *)
(*                  "yes" (the YES handler, no button), "btn" (the music   *)
(*                  button now rendered), "stale" (a button since removed) *)

cleanupDelayMs == 180

\* render(): new markup, a fresh "Play music" button
render(ma) ==
    [modal |-> [ma.modal EXCEPT !.content = TRUE, !.label = "Play music",
                                !.stylesInjected = TRUE],
     audio |-> [ma.audio EXCEPT !.pending = IF @ = "btn" THEN "stale" ELSE @]]

open(ma) ==
    IF ma.modal.isOpen THEN ma
    ELSE LET r == render(ma)
         IN  [r EXCEPT !.modal.isOpen = TRUE]

\* a.pause(): a pending play() promise is rejected, and the toggleMusic that
\* awaits it runs its catch branch
pauseAudio(ma) ==
    [modal |-> [ma.modal EXCEPT !.label =
                    IF ma.audio.pending = "btn" THEN "Play music" ELSE @],
     audio |-> [ma.audio EXCEPT !.paused = TRUE, !.pending = "none"]]

stopAudio(ma) == IF ~ma.audio.created THEN ma ELSE pauseAudio(ma)

close(ma, t) ==
    IF ~ma.modal.isOpen THEN ma
    ELSE LET s == stopAudio(ma)
         IN  [s EXCEPT !.modal.isOpen = FALSE,
                       !.modal.timers = Append(@, t + cleanupDelayMs)]

\* the body of the setTimeout callback of close()
cleanup(ma) ==
    [modal |-> [ma.modal EXCEPT !.content = FALSE, !.label = "",
                                !.timers = Tail(@)],
     audio |-> [ma.audio EXCEPT !.pending = IF @ = "btn" THEN "stale" ELSE @]]

\* toggleMusic(buttonEl) up to its await; who is "yes" (no buttonEl) or "btn".
\* permitted: the browser lets play() start (a user gesture counts)
toggleMusic(ma, who, permitted) ==
    LET a == [ma.audio EXCEPT !.created = TRUE]
    IN  IF a.paused
        THEN IF permitted
             THEN [ma EXCEPT !.audio = [a EXCEPT !.paused = FALSE, !.pending = who]]
             ELSE [ma EXCEPT !.audio = a,
                             !.modal.label = IF who = "btn" THEN "Play music" ELSE @]
        ELSE LET p == pauseAudio([ma EXCEPT !.audio = a])
             IN  [p EXCEPT !.modal.label = IF who = "btn" THEN "Play music" ELSE @]

toggleBranch(ma, permitted) ==
    IF ~ma.audio.created \/ ma.audio.paused
    THEN IF permitted THEN "pending" ELSE "blocked"
    ELSE "toggledOff"

\* the rest of toggleMusic once play() has settled
playSettled(ma, ok) ==
    [modal |-> [ma.modal EXCEPT !.label =
                    IF ma.audio.pending = "btn"
                    THEN (IF ok THEN "Stop music" ELSE "Play music") ELSE @],
     audio |-> [ma.audio EXCEPT !.pending = "none"]]


----------------------------------------------------------------------------
(* Hearts FX emitter (createHeartsFx in src/ui/buttons.js).  A particle    *)
(* keeps the fields the frame loop reads: x, y, vx, vy, g, life, t; the    *)
(* model holds the first MaxSpawn particles of each spawn.                 *)

burstCountWide == 160
burstCountNarrow == 100
teaseCountWide == 50
teaseCountNarrow == 34
wideWidth == 700

\* one heart from the Math.random() draws d: direction (cos, sin in 1/Unit),
\* speed, upward bias, gravity, life (ms)
newHeart(cx, cy, d) ==
    [x |-> cx, y |-> cy,
     vx |-> RoundDiv(d.cos * d.speed, Unit),
     vy |-> RoundDiv(d.sin * d.speed, Unit) - d.up,
     g |-> d.g, life |-> d.life, t |-> 0]

\* raf counts the frame callbacks requested and not yet run
start(f, t) == [f EXCEPT !.running = TRUE, !.lastT = t, !.raf = @ + 1]

\* a spawn that calls start() without looking at running
spawnBurst_alwaysStarts(f, cx, cy, count, draws, t) ==
    LET n == Min2(count, MaxSpawn)
    IN  start([f EXCEPT !.hearts = @ \o [i \in 1..n |-> newHeart(cx, cy, draws[i])]], t)

spawnBurst(f, cx, cy, count, draws, t) ==
    LET n == Min2(count, MaxSpawn)
        f1 == [f EXCEPT !.hearts = @ \o [i \in 1..n |-> newHeart(cx, cy, draws[i])]]
    IN  IF ~f1.running THEN start(f1, t) ELSE f1

burst(f, vp, draws, t) ==
    spawnBurst(f, RoundDiv(vp.w * 5, 10), RoundDiv(vp.h * 55, 100),
               IF vp.w > wideWidth THEN burstCountWide ELSE burstCountNarrow, draws, t)

tease(f, x, y, vp, draws, t) ==
    spawnBurst(f, x, y, IF vp.w > wideWidth THEN teaseCountWide ELSE teaseCountNarrow,
               draws, t)

fxMaxDtMs == 33            \* Math.min(..., 0.033)
marginBottom == 120        \* p.y > h + 120
marginSide == 140          \* p.x < -140 || p.x > w + 140
lifeMinMs == 900           \* rand(0.9, 1.35)
lifeMaxMs == 1350

\* dt of a frame with timestamp ts, ms: capped above, not below
frameDt(f, ts) == Min2(ts - f.lastT, fxMaxDtMs)

\* one particle after the integration step of a frame (dt in ms)
stepHeart(p, dt) ==
    LET vy1 == p.vy + RoundDiv(p.g * dt, 1000)
    IN  [p EXCEPT !.t = @ + dt, !.vy = vy1,
                  !.x = @ + RoundDiv(p.vx * dt, 1000),
                  !.y = @ + RoundDiv(vy1 * dt, 1000)]

\* fade = 1 - t / life, scaled by life (life > 0)
fade(p) == p.life - p.t

\* a removal test that forgets the side margins
gone_noSides(p, vp) == fade(p) <= 0 \/ p.y > vp.h + marginBottom

\* a removal test that forgets the age
gone_noAge(p, vp) ==
    p.y > vp.h + marginBottom \/ p.x < -marginSide \/ p.x > vp.w + marginSide

gone(p, vp) ==
    fade(p) <= 0 \/ p.y > vp.h + marginBottom \/ p.x < -marginSide \/ p.x > vp.w + marginSide

\* a frame loop that requests the next frame even when the set is empty
fxTick_neverStops(f, ts, vp) ==
    LET dt == frameDt(f, ts)
        moved == [i \in 1..Len(f.hearts) |-> stepHeart(f.hearts[i], dt)]
    IN  [f EXCEPT !.hearts = SelectSeq(moved, LAMBDA p : ~gone(p, vp)),
                  !.lastT = ts, !.raf = @ + 1]

\* tick(now) of createHeartsFx: the splice loop keeps the survivors in order
fxTick(f, ts, vp) ==
    LET dt == frameDt(f, ts)
        moved == [i \in 1..Len(f.hearts) |-> stepHeart(f.hearts[i], dt)]
        kept == SelectSeq(moved, LAMBDA p : ~gone(p, vp))
    IN  IF Len(kept) > 0
        THEN [f EXCEPT !.hearts = kept, !.lastT = ts, !.raf = @ + 1]
        ELSE [f EXCEPT !.hearts = kept, !.lastT = ts, !.running = FALSE]

----------------------------------------------------------------------------
(* 3D heart scene (src/three/heartParticles.js).  Positions are in 1/1000  *)
(* scene units, assembleAmount in 1/AmountOne, pulseBoost in 1/1000; the   *)
(* model holds the first MaxParticles particles of the field, three        *)
(* coordinates each.                                                       *)

MaxParticles == 1
AmountOne == 1000000
maxDtMs == 33              \* Math.min(dt, 0.033)
amountPerMs == 220         \* assembleAmount + dt * 0.22
strengthBase == 4200       \* 4.2
dampPct == 86              \* 0.86
snapE4 == 22               \* 0.0022
assembledAmount == 980000  \* assembleAmount > 0.98
assembledMean == 90        \* mean < 0.09
pulseStep == 1200
pulseMax == 2500
pulseDecayPct == 90        \* dt * 0.9

\* a tier table with the two upper tiers swapped
computeQuality_swapped(w) ==
    IF w >= 1100 THEN [heartCount |-> 10000, starsCount |-> 1700]
    ELSE IF w >= 780 THEN [heartCount |-> 12000, starsCount |-> 2200]
    ELSE IF w >= 520 THEN [heartCount |-> 6500, starsCount |-> 1200]
    ELSE [heartCount |-> 3800, starsCount |-> 900]

computeQuality(w) ==
    IF w >= 1100 THEN [heartCount |-> 12000, starsCount |-> 2200]
    ELSE IF w >= 780 THEN [heartCount |-> 10000, starsCount |-> 1700]
    ELSE IF w >= 520 THEN [heartCount |-> 6500, starsCount |-> 1200]
    ELSE [heartCount |-> 3800, starsCount |-> 900]

fieldLen(q) == 3 * Min2(q.heartCount, MaxParticles)

\* a rebuild that keeps the velocity buffer of the previous field
createOrRebuildHeart_keepsVelocities(h, w, draw) ==
    LET q == computeQuality(w)
        n == fieldLen(q)
    IN  [h EXCEPT !.quality = q,
                  !.tgt = [i \in 1..n |-> draw.tgt[i]],
                  !.cur = [i \in 1..n |-> draw.cur[i]],
                  !.gen = @ + 1,
                  !.built = [tgt |-> h.gen + 1, cur |-> h.gen + 1, vel |-> h.built.vel],
                  !.assembled = FALSE, !.assembleAmount = 0]

\* draw.cur / draw.tgt: the scattered start and the target of each particle,
\* flat arrays as in the Float32Arrays.  gen numbers the rebuilds and built
\* records, for each of the three buffers, the rebuild that allocated it.
createOrRebuildHeart(h, w, draw) ==
    LET q == computeQuality(w)
        n == fieldLen(q)
    IN  [h EXCEPT !.quality = q,
                  !.tgt = [i \in 1..n |-> draw.tgt[i]],
                  !.cur = [i \in 1..n |-> draw.cur[i]],
                  !.vel = [i \in 1..n |-> 0],
                  !.gen = @ + 1,
                  !.built = [tgt |-> h.gen + 1, cur |-> h.gen + 1, vel |-> h.gen + 1],
                  !.assembled = FALSE, !.assembleAmount = 0]

createOrRebuildStars(h) == [h EXCEPT !.stars = h.quality.starsCount]

\* a resize that never rebuilds
resize_never(h, vp, draw) == h

\* a resize that rebuilds whatever the tier
resize_alwaysRebuilds(h, vp, draw) ==
    createOrRebuildStars(createOrRebuildHeart(h, vp.w, draw))

resize(h, vp, draw) ==
    LET q2 == computeQuality(vp.w)
    IN  IF q2.heartCount # h.quality.heartCount \/ q2.starsCount # h.quality.starsCount
        THEN createOrRebuildStars(createOrRebuildHeart(h, vp.w, draw))
        ELSE h

pulse(h) == [h EXCEPT !.pulseBoost = Min2(@ + pulseStep, pulseMax)]

destroy(h) == [h EXCEPT !.disposed = TRUE]

\* dx * strength * dt, strength = 4.2 + assembleAmount * 10
accel(dx, amount, dt) ==
    RoundDiv(RoundDiv(dx * (strengthBase + RoundDiv(amount, 100)), 1000) * dt, 1000)

velAfter(v, dx, amount, dt) == RoundDiv((v + accel(dx, amount, dt)) * dampPct, 100)

posAfter(p, v, dx, amount, dt) ==
    p + velAfter(v, dx, amount, dt)
      + RoundDiv(RoundDiv(dx * snapE4, 10000) * RoundDiv(amount, 1000), 1000)

RECURSIVE sumAbsDiff(_, _, _)
sumAbsDiff(a, b, i) ==
    IF i = 0 THEN 0 ELSE Abs(a[i] - b[i]) + sumAbsDiff(a, b, i - 1)

\* an assembly step that declares the heart assembled on the error alone
assemble_errorOnly(h, dt) ==
    LET amount == Min2(h.assembleAmount + dt * amountPerMs, AmountOne)
        n == Len(h.cur)
    IN  [h EXCEPT
            !.assembleAmount = amount,
            !.vel = [i \in 1..n |-> velAfter(h.vel[i], h.tgt[i] - h.cur[i], amount, dt)],
            !.cur = [i \in 1..n |->
                        posAfter(h.cur[i], h.vel[i], h.tgt[i] - h.cur[i], amount, dt)],
            !.assembled = (n > 0 /\ sumAbsDiff(h.tgt, h.cur, n) < assembledMean * (n \div 3))]

\* the assembly part of tick: if (!assembled) { ... }
assemble(h, dt) ==
    LET amount == Min2(h.assembleAmount + dt * amountPerMs, AmountOne)
        n == Len(h.cur)
        avgDist == sumAbsDiff(h.tgt, h.cur, n)
        count == n \div 3
    IN  [h EXCEPT
            !.assembleAmount = amount,
            !.vel = [i \in 1..n |-> velAfter(h.vel[i], h.tgt[i] - h.cur[i], amount, dt)],
            !.cur = [i \in 1..n |->
                        posAfter(h.cur[i], h.vel[i], h.tgt[i] - h.cur[i], amount, dt)],
            \* mean = avgDist / heartCount is NaN for no particle, and NaN < 0.09 is false
            !.assembled = (amount > assembledAmount /\ count > 0
                           /\ avgDist < assembledMean * count)]

\* a frame callback that keeps integrating after the heart has assembled
tick_keepsIntegrating(h, ts) ==
    LET dt == Min2(ts - h.lastT, maxDtMs)
        h2 == assemble([h EXCEPT !.lastT = ts, !.time = @ + dt], dt)
    IN  [h2 EXCEPT !.pulseBoost = Max2(0, @ - RoundDiv(dt * pulseDecayPct, 100)),
                   !.raf = @ + 1]

\* tick(now): one frame callback, which always requests the next one (raf
\* counts the callbacks requested and not yet run)
tick(h, ts) ==
    LET dt == Min2(ts - h.lastT, maxDtMs)
        h1 == [h EXCEPT !.lastT = ts, !.time = @ + dt]
        h2 == IF ~h1.assembled THEN assemble(h1, dt) ELSE h1
    IN  [h2 EXCEPT !.pulseBoost = Max2(0, @ - RoundDiv(dt * pulseDecayPct, 100)),
                   !.raf = @ + 1]


----------------------------------------------------------------------------
(* Inputs *)

Viewports == { [w |-> 800, h |-> 600], [w |-> 400, h |-> 300], [w |-> 110, h |-> 60] }
InitViewport == [w |-> 800, h |-> 600]

\* time that passes between two events, ms
TimeSteps == {60, 180}

\* the two Math.random() draws of the jitter, in 1/Unit: a slight one to the
\* right, and the largest to the left and down
JitterDraws == { <<600, 500>>, <<0, 999>> }

\* the two Math.random() draws of the stuck recovery of part_000, in 1/Unit
StuckDraws == { <<500, 500>>, <<0, 999>> }

\* Where the pointer is, relative to the button's rect, in half pixels:
\* on its centre, one pixel inside its left edge, 60 px left of the centre,
\* 30 px below it, and 500 px away (400 left, 300 up)
pointerOver(rect, where) ==
    LET cx2 == 2 * rect.left + rect.width
        cy2 == 2 * rect.top + rect.height
    IN  CASE where = "centre" -> <<cx2, cy2>>
          [] where = "edge" -> <<2 * rect.left + 2, cy2>>
          [] where = "left" -> <<cx2 - 120, cy2>>
          [] where = "below" -> <<cx2, cy2 + 60>>
          [] OTHER -> <<cx2 - 800, cy2 - 600>>

\* pointerenter / pointerdown happen over the button
OverButton == {"centre", "edge"}

\* pointermove happens anywhere in the window
MoveAt == {"left", "below", "far"}

inViewport(p, vp) == p[1] >= 0 /\ p[1] < 2 * vp.w /\ p[2] >= 0 /\ p[2] < 2 * vp.h

\* Math.random() draws of one spawned heart in the event model
FxDraws == { [cos |-> 0, sin |-> -1000, speed |-> 500, up |-> 100, g |-> 700, life |-> 1000] }

\* scattered start and target of the modelled particles (1/1000 scene units)
HeartDraws ==
    { [cur |-> [i \in 1..(3 * (MaxParticles + 1)) |-> 2000],
       tgt |-> [i \in 1..(3 * (MaxParticles + 1)) |-> 1000]] }

----------------------------------------------------------------------------
(* Initial state: main.js has run createModal, createHeartScene (which     *)
(* builds the heart and the stars, calls resize() and requests the first   *)
(* frame) and setupButtons.                                                *)

newHeartScene(vp, draw, t) ==
    LET h0 == [quality |-> computeQuality(vp.w), tgt |-> <<>>, cur |-> <<>>, vel |-> <<>>,
               assembled |-> FALSE, assembleAmount |-> 0, stars |-> 0,
               lastT |-> t, time |-> 0, pulseBoost |-> 0, raf |-> 1,
               gen |-> 0, built |-> [tgt |-> 0, cur |-> 0, vel |-> 0],
               disposed |-> FALSE]
    IN  resize(createOrRebuildStars(createOrRebuildHeart(h0, vp.w, draw)), vp, draw)

InitWith(v, draw) ==
    /\ variant = v
    /\ now = 0
    /\ viewport = InitViewport
    /\ noCtrl = [isFixed |-> FALSE, hidden |-> FALSE, placeholder |-> FALSE,
                 left |-> 0, top |-> 0, scale |-> ScaleOne, lastMove |-> 0]
    /\ modal = [isOpen |-> FALSE, content |-> FALSE, label |-> "", timers |-> <<>>,
                stylesInjected |-> FALSE]
    /\ audio = [created |-> FALSE, paused |-> TRUE, pending |-> "none"]
    /\ fx = [hearts |-> <<>>, running |-> FALSE, lastT |-> 0, raf |-> 0]
    /\ heart = newHeartScene(InitViewport, draw, 0)
    /\ lastOp = [op |-> "init", at |-> "", outcome |-> ""]
    /\ steps = 0

Init == \E v \in {"buttons", "part_000"} : \E draw \in HeartDraws : InitWith(v, draw)

----------------------------------------------------------------------------
(* Event handlers of setupButtons (src/ui/buttons.js) and main.js *)

Did(op, at, outcome) ==
    /\ lastOp' = [op |-> op, at |-> at, outcome |-> outcome]
    /\ steps' = steps + 1

\* time passes
AdvanceTime(d) ==
    /\ steps < MaxSteps
    /\ now + d <= MaxNow
    /\ now' = now + d
    /\ Did("time", "", "")
    /\ UNCHANGED <<variant, viewport, noCtrl, modal, audio, fx, heart>>

\* yesBtn click: burst, onYes (scene3d.pulse), hide NO, open the modal,
\* toggleMusic without a button
YesClick(draws, permitted) ==
    /\ steps < MaxSteps
    /\ variant = "buttons"
    /\ fx' = burst(fx, viewport, draws, now)
    /\ heart' = pulse(heart)
    /\ noCtrl' = hide(noCtrl)
    /\ LET ma == toggleMusic(open([modal |-> modal, audio |-> audio]), "yes", permitted)
       IN  /\ modal' = ma.modal
           /\ audio' = ma.audio
    /\ Did("yes", "", toggleBranch([modal |-> modal, audio |-> audio], permitted))
    /\ UNCHANGED <<variant, now, viewport>>

\* window pointermove
PointerMove(where, rx, ry) ==
    /\ steps < MaxSteps
    /\ variant = "buttons"
    /\ LET p == pointerOver(getRect(noCtrl, viewport), where)
       IN  /\ inViewport(p, viewport)
           /\ noCtrl' = IF modal.isOpen THEN noCtrl
                        ELSE runAwayFrom(noCtrl, p[1], p[2], FALSE, now, viewport, rx, ry)
           /\ Did("pointermove", where,
                  IF modal.isOpen THEN "modal"
                  ELSE runAwayBranch(noCtrl, p[1], p[2], FALSE, now, viewport))
    /\ UNCHANGED <<variant, now, viewport, modal, audio, fx, heart>>

\* noBtn pointerenter (the button is displayed)
PointerEnter(where, rx, ry) ==
    /\ steps < MaxSteps
    /\ variant = "buttons"
    /\ ~noCtrl.hidden
    /\ LET p == pointerOver(getRect(noCtrl, viewport), where)
       IN  /\ noCtrl' = IF modal.isOpen THEN noCtrl
                        ELSE runAwayFrom(shrinkHover(noCtrl), p[1], p[2], TRUE, now,
                                         viewport, rx, ry)
           /\ Did("pointerenter", where,
                  IF modal.isOpen THEN "modal"
                  ELSE runAwayBranch(shrinkHover(noCtrl), p[1], p[2], TRUE, now, viewport))
    /\ UNCHANGED <<variant, now, viewport, modal, audio, fx, heart>>

\* noBtn pointerdown (the button is displayed)
PointerDown(where, rx, ry, draws) ==
    /\ steps < MaxSteps
    /\ variant = "buttons"
    /\ ~noCtrl.hidden
    /\ LET p == pointerOver(getRect(noCtrl, viewport), where)
       IN  /\ noCtrl' = IF modal.isOpen THEN noCtrl
                        ELSE runAwayFrom(shrinkPress(noCtrl), p[1], p[2], TRUE, now,
                                         viewport, rx, ry)
           /\ fx' = IF modal.isOpen THEN fx
                    ELSE tease(fx, p[1] \div 2, p[2] \div 2, viewport, draws, now)
           /\ Did("pointerdown", where,
                  IF modal.isOpen THEN "modal"
                  ELSE runAwayBranch(shrinkPress(noCtrl), p[1], p[2], TRUE, now, viewport))
    /\ UNCHANGED <<variant, now, viewport, modal, audio, heart>>

\* window resize: main.js (scene3d.resize) and setupButtons (reclamp)
Resize(vp, draw) ==
    /\ steps < MaxSteps
    /\ variant = "buttons"
    /\ vp # viewport
    /\ viewport' = vp
    /\ heart' = resize(heart, vp, draw)
    /\ noCtrl' = reclamp(noCtrl, vp)
    /\ Did("resize", "", "")
    /\ UNCHANGED <<variant, now, modal, audio, fx>>

\* window scroll
Scroll ==
    /\ steps < MaxSteps
    /\ variant = "buttons"
    /\ noCtrl' = reclamp(noCtrl, viewport)
    /\ Did("scroll", "", "")
    /\ UNCHANGED <<variant, now, viewport, modal, audio, fx, heart>>

----------------------------------------------------------------------------
(* The same handlers in the second buttons module (src/unnamed/part_000) *)

P0_YesClick(draws, permitted) ==
    /\ steps < MaxSteps
    /\ variant = "part_000"
    /\ fx' = burst(fx, viewport, draws, now)
    /\ heart' = pulse(heart)
    /\ LET ma == toggleMusic(open([modal |-> modal, audio |-> audio]), "yes", permitted)
       IN  /\ modal' = ma.modal
           /\ audio' = ma.audio
    /\ Did("yes", "", toggleBranch([modal |-> modal, audio |-> audio], permitted))
    /\ UNCHANGED <<variant, now, viewport, noCtrl>>

P0_PointerMove(where, rx, ry, r3, r4) ==
    /\ steps < MaxSteps
    /\ variant = "part_000"
    /\ LET p == pointerOver(getRect(noCtrl, viewport), where)
       IN  /\ inViewport(p, viewport)
           /\ noCtrl' = IF modal.isOpen THEN noCtrl
                        ELSE P0_runAwayFrom(noCtrl, p[1], p[2], FALSE, now, viewport,
                                            modal.isOpen, rx, ry, r3, r4)
           /\ Did("pointermove", where,
                  IF modal.isOpen THEN "modal"
                  ELSE P0_runAwayBranch(noCtrl, p[1], p[2], FALSE, now, viewport,
                                        modal.isOpen))
    /\ UNCHANGED <<variant, now, viewport, modal, audio, fx, heart>>

P0_PointerEnter(where, rx, ry, r3, r4) ==
    /\ steps < MaxSteps
    /\ variant = "part_000"
    /\ LET p == pointerOver(getRect(noCtrl, viewport), where)
       IN  /\ noCtrl' = IF modal.isOpen THEN noCtrl
                        ELSE P0_runAwayFrom(noCtrl, p[1], p[2], TRUE, now, viewport,
                                            modal.isOpen, rx, ry, r3, r4)
           /\ Did("pointerenter", where,
                  IF modal.isOpen THEN "modal"
                  ELSE P0_runAwayBranch(noCtrl, p[1], p[2], TRUE, now, viewport,
                                        modal.isOpen))
    /\ UNCHANGED <<variant, now, viewport, modal, audio, fx, heart>>

\* a pointerdown handler without the early return on an open modal
P0_PointerDown_ignoresModal(where, rx, ry, r3, r4, draws) ==
    /\ steps < MaxSteps
    /\ variant = "part_000"
    /\ LET p == pointerOver(getRect(noCtrl, viewport), where)
       IN  /\ noCtrl' = P0_runAwayFrom(noCtrl, p[1], p[2], TRUE, now, viewport,
                                       modal.isOpen, rx, ry, r3, r4)
           /\ fx' = tease(fx, p[1] \div 2, p[2] \div 2, viewport, draws, now)
           /\ Did("pointerdown", where,
                  P0_runAwayBranch(noCtrl, p[1], p[2], TRUE, now, viewport,
                                   modal.isOpen))
    /\ UNCHANGED <<variant, now, viewport, modal, audio, heart>>

P0_PointerDown(where, rx, ry, r3, r4, draws) ==
    /\ steps < MaxSteps
    /\ variant = "part_000"
    /\ LET p == pointerOver(getRect(noCtrl, viewport), where)
       IN  /\ noCtrl' = IF modal.isOpen THEN noCtrl
                        ELSE P0_runAwayFrom(noCtrl, p[1], p[2], TRUE, now, viewport,
                                            modal.isOpen, rx, ry, r3, r4)
           /\ fx' = IF modal.isOpen THEN fx
                    ELSE tease(fx, p[1] \div 2, p[2] \div 2, viewport, draws, now)
           /\ Did("pointerdown", where,
                  IF modal.isOpen THEN "modal"
                  ELSE P0_runAwayBranch(noCtrl, p[1], p[2], TRUE, now, viewport,
                                        modal.isOpen))
    /\ UNCHANGED <<variant, now, viewport, modal, audio, heart>>

P0_Resize(vp, draw) ==
    /\ steps < MaxSteps
    /\ variant = "part_000"
    /\ vp # viewport
    /\ viewport' = vp
    /\ heart' = resize(heart, vp, draw)
    /\ noCtrl' = P0_reclamp(noCtrl, vp)
    /\ Did("resize", "", "")
    /\ UNCHANGED <<variant, now, modal, audio, fx>>

P0_Scroll ==
    /\ steps < MaxSteps
    /\ variant = "part_000"
    /\ noCtrl' = P0_reclamp(noCtrl, viewport)
    /\ Did("scroll", "", "")
    /\ UNCHANGED <<variant, now, viewport, modal, audio, fx, heart>>

----------------------------------------------------------------------------
(* Modal events (src/ui/modal.js) *)

\* a click on a close button or on the backdrop (markup present), or Escape
\* (keydown listener registered while open)
CloseModal ==
    /\ steps < MaxSteps
    /\ modal.isOpen \/ modal.content
    /\ LET ma == close([modal |-> modal, audio |-> audio], now)
       IN  /\ modal' = ma.modal
           /\ audio' = ma.audio
    /\ Did("close", "", IF modal.isOpen THEN "closed" ELSE "notOpen")
    /\ UNCHANGED <<variant, now, viewport, noCtrl, fx, heart>>

\* the cleanup timer of close() fires
CleanupTimer ==
    /\ steps < MaxSteps
    /\ modal.timers # <<>>
    /\ now >= Head(modal.timers)
    /\ LET ma == cleanup([modal |-> modal, audio |-> audio])
       IN  /\ modal' = ma.modal
           /\ audio' = ma.audio
    /\ Did("cleanup", "", "")
    /\ UNCHANGED <<variant, now, viewport, noCtrl, fx, heart>>

\* a click on the rendered music button
MusicClick(permitted) ==
    /\ steps < MaxSteps
    /\ modal.content
    /\ LET ma == toggleMusic([modal |-> modal, audio |-> audio], "btn", permitted)
       IN  /\ modal' = ma.modal
           /\ audio' = ma.audio
    /\ Did("music", "", toggleBranch([modal |-> modal, audio |-> audio], permitted))
    /\ UNCHANGED <<variant, now, viewport, noCtrl, fx, heart>>

\* the pending play() promise settles: playback started, or loading failed
PlaySettles(ok) ==
    /\ steps < MaxSteps
    /\ audio.pending # "none"
    /\ LET ma == playSettled([modal |-> modal, audio |-> audio], ok)
       IN  /\ modal' = ma.modal
           /\ audio' = ma.audio
    /\ Did(IF audio.pending = "yes" THEN "yesResumed" ELSE "musicResumed", "",
           IF ok THEN "played" ELSE "failed")
    /\ UNCHANGED <<variant, now, viewport, noCtrl, fx, heart>>

----------------------------------------------------------------------------
(* The page: every event of the loaded buttons module, the modal's events  *)
(* and the passing of time, up to MaxSteps events.                         *)

Next ==
    \/ \E d \in TimeSteps : AdvanceTime(d)
    \/ \E draws \in [1..MaxSpawn -> FxDraws] : \E ok \in BOOLEAN : YesClick(draws, ok)
    \/ \E where \in MoveAt : \E j \in JitterDraws : PointerMove(where, j[1], j[2])
    \/ \E where \in OverButton : \E j \in JitterDraws : PointerEnter(where, j[1], j[2])
    \/ \E where \in OverButton : \E j \in JitterDraws :
          \E draws \in [1..MaxSpawn -> FxDraws] : PointerDown(where, j[1], j[2], draws)
    \/ \E vp \in Viewports : \E draw \in HeartDraws : Resize(vp, draw)
    \/ Scroll
    \/ \E draws \in [1..MaxSpawn -> FxDraws] : \E ok \in BOOLEAN : P0_YesClick(draws, ok)
    \/ \E where \in MoveAt : \E j \in JitterDraws : \E k \in StuckDraws :
          P0_PointerMove(where, j[1], j[2], k[1], k[2])
    \/ \E where \in OverButton : \E j \in JitterDraws : \E k \in StuckDraws :
          P0_PointerEnter(where, j[1], j[2], k[1], k[2])
    \/ \E where \in OverButton : \E j \in JitterDraws : \E k \in StuckDraws :
          \E draws \in [1..MaxSpawn -> FxDraws] :
             P0_PointerDown(where, j[1], j[2], k[1], k[2], draws)
    \/ \E vp \in Viewports : \E draw \in HeartDraws : P0_Resize(vp, draw)
    \/ P0_Scroll
    \/ CloseModal
    \/ CleanupTimer
    \/ \E ok \in BOOLEAN : MusicClick(ok)
    \/ \E ok \in BOOLEAN : PlaySettles(ok)

Spec == Init /\ [][Next]_vars


----------------------------------------------------------------------------
(* The controller on its own: the methods createRunawayNo returns, called  *)
(* in any order with any arguments, and the window changing size.          *)

\* where the threat point is, relative to the button (see pointerOver)
ThreatAt == {"centre", "left", "below", "far"}

CtlOnly == UNCHANGED <<variant, modal, audio, fx, heart>>

CtlRunAway(where, force, rx, ry) ==
    /\ steps < MaxCtlSteps
    /\ variant = "buttons"
    /\ LET p == pointerOver(getRect(noCtrl, viewport), where)
       IN  /\ noCtrl' = runAwayFrom(noCtrl, p[1], p[2], force, now, viewport, rx, ry)
           /\ Did(IF force THEN "runForced" ELSE "run", where,
                  runAwayBranch(noCtrl, p[1], p[2], force, now, viewport))
    /\ UNCHANGED <<now, viewport>> /\ CtlOnly

CtlReclamp ==
    /\ steps < MaxCtlSteps
    /\ variant = "buttons"
    /\ noCtrl' = reclamp(noCtrl, viewport)
    /\ Did("reclamp", "", "")
    /\ UNCHANGED <<now, viewport>> /\ CtlOnly

CtlShrinkHover ==
    /\ steps < MaxCtlSteps
    /\ variant = "buttons"
    /\ noCtrl' = shrinkHover(noCtrl)
    /\ Did("shrinkHover", "", "")
    /\ UNCHANGED <<now, viewport>> /\ CtlOnly

CtlShrinkPress ==
    /\ steps < MaxCtlSteps
    /\ variant = "buttons"
    /\ noCtrl' = shrinkPress(noCtrl)
    /\ Did("shrinkPress", "", "")
    /\ UNCHANGED <<now, viewport>> /\ CtlOnly

CtlHide ==
    /\ steps < MaxCtlSteps
    /\ variant = "buttons"
    /\ noCtrl' = hide(noCtrl)
    /\ Did("hide", "", "")
    /\ UNCHANGED <<now, viewport>> /\ CtlOnly

CtlRestore ==
    /\ steps < MaxCtlSteps
    /\ variant = "buttons"
    /\ noCtrl' = restore(noCtrl)
    /\ Did("restore", "", "")
    /\ UNCHANGED <<now, viewport>> /\ CtlOnly

P0_CtlRunAway(where, force, rx, ry, r3, r4) ==
    /\ steps < MaxCtlSteps
    /\ variant = "part_000"
    /\ LET p == pointerOver(getRect(noCtrl, viewport), where)
       IN  /\ noCtrl' = P0_runAwayFrom(noCtrl, p[1], p[2], force, now, viewport,
                                       modal.isOpen, rx, ry, r3, r4)
           /\ Did(IF force THEN "runForced" ELSE "run", where,
                  P0_runAwayBranch(noCtrl, p[1], p[2], force, now, viewport, modal.isOpen))
    /\ UNCHANGED <<now, viewport>> /\ CtlOnly

P0_CtlReclamp ==
    /\ steps < MaxCtlSteps
    /\ variant = "part_000"
    /\ noCtrl' = P0_reclamp(noCtrl, viewport)
    /\ Did("reclamp", "", "")
    /\ UNCHANGED <<now, viewport>> /\ CtlOnly

\* the window changes size (no listener of the controller runs)
CtlViewport(vp) ==
    /\ steps < MaxCtlSteps
    /\ vp # viewport
    /\ viewport' = vp
    /\ Did("viewport", "", "")
    /\ UNCHANGED <<now, noCtrl>> /\ CtlOnly

CtlTime(d) ==
    /\ steps < MaxCtlSteps
    /\ now + d <= MaxNow
    /\ now' = now + d
    /\ Did("time", "", "")
    /\ UNCHANGED <<viewport, noCtrl>> /\ CtlOnly

NextCtl ==
    \/ \E d \in TimeSteps : CtlTime(d)
    \/ \E vp \in Viewports : CtlViewport(vp)
    \/ \E where \in ThreatAt : \E force \in BOOLEAN : \E j \in JitterDraws :
          CtlRunAway(where, force, j[1], j[2])
    \/ CtlReclamp
    \/ CtlShrinkHover
    \/ CtlShrinkPress
    \/ CtlHide
    \/ CtlRestore
    \/ \E where \in ThreatAt : \E force \in BOOLEAN : \E j \in JitterDraws :
          \E k \in StuckDraws : P0_CtlRunAway(where, force, j[1], j[2], k[1], k[2])
    \/ P0_CtlReclamp

SpecCtl == Init /\ [][NextCtl]_vars

----------------------------------------------------------------------------
(* The modal on its own: the methods createModal returns (open, close,     *)
(* toggleMusic), the clicks on its rendered buttons, the cleanup timers of *)
(* close() and the play() promise, in any order.                           *)

ModalOnly == UNCHANGED <<variant, viewport, noCtrl, fx, heart>>

ModalOpen ==
    /\ steps < MaxModalSteps
    /\ LET ma == open([modal |-> modal, audio |-> audio])
       IN  /\ modal' = ma.modal
           /\ audio' = ma.audio
    /\ Did("open", "", IF modal.isOpen THEN "wasOpen" ELSE "opened")
    /\ UNCHANGED now /\ ModalOnly

ModalClose ==
    /\ steps < MaxModalSteps
    /\ LET ma == close([modal |-> modal, audio |-> audio], now)
       IN  /\ modal' = ma.modal
           /\ audio' = ma.audio
    /\ Did("close", "", IF modal.isOpen THEN "closed" ELSE "notOpen")
    /\ UNCHANGED now /\ ModalOnly

\* a cleanup timer of close() fires, the earliest first
ModalCleanup ==
    /\ steps < MaxModalSteps
    /\ modal.timers # <<>>
    /\ now >= Head(modal.timers)
    /\ LET ma == cleanup([modal |-> modal, audio |-> audio])
       IN  /\ modal' = ma.modal
           /\ audio' = ma.audio
    /\ Did("cleanup", "", IF modal.isOpen THEN "reopened" ELSE "closed")
    /\ UNCHANGED now /\ ModalOnly

\* toggleMusic() from the page ("yes"), or a click on the rendered music
\* button ("btn")
ModalToggleMusic(who, permitted) ==
    /\ steps < MaxModalSteps
    /\ who = "btn" => modal.content
    /\ LET ma == toggleMusic([modal |-> modal, audio |-> audio], who, permitted)
       IN  /\ modal' = ma.modal
           /\ audio' = ma.audio
    /\ Did("music", who, toggleBranch([modal |-> modal, audio |-> audio], permitted))
    /\ UNCHANGED now /\ ModalOnly

ModalPlaySettles(ok) ==
    /\ steps < MaxModalSteps
    /\ audio.pending # "none"
    /\ LET ma == playSettled([modal |-> modal, audio |-> audio], ok)
       IN  /\ modal' = ma.modal
           /\ audio' = ma.audio
    /\ Did("resumed", audio.pending, IF ok THEN "played" ELSE "failed")
    /\ UNCHANGED now /\ ModalOnly

ModalTime(d) ==
    /\ steps < MaxModalSteps
    /\ now + d <= MaxNow
    /\ now' = now + d
    /\ Did("time", "", "")
    /\ UNCHANGED <<modal, audio>> /\ ModalOnly

NextModal ==
    \/ ModalOpen
    \/ ModalClose
    \/ ModalCleanup
    \/ \E who \in {"yes", "btn"} : \E ok \in BOOLEAN : ModalToggleMusic(who, ok)
    \/ \E ok \in BOOLEAN : ModalPlaySettles(ok)
    \/ \E d \in TimeSteps : ModalTime(d)

SpecModal == Init /\ [][NextModal]_vars

----------------------------------------------------------------------------
(* The heart scene on its own: the frame callback and the methods          *)
(* createHeartScene returns (resize, pulse, destroy), called in any order. *)

\* frame intervals, ms: a 60 Hz frame and a late one (dt is capped at 33)
FrameSteps == {16, 40}

\* ms by which the frame that runs the first callback began before
\* createHeartScene read performance.now() into lastT
HeartFrameLags == {4}

\* the windows of the page, one of the same width and quality tier as the
\* initial one, and a desktop window
HeartViewports == Viewports \cup { [w |-> 800, h |-> 500], [w |-> 1200, h |-> 800] }

\* window widths around the breakpoints of computeQuality
QualityWidths == {0, 400, 519, 520, 779, 780, 1099, 1100, 1200, 4000}

\* The scene h0 of HeartDraws 134 late frames (40 ms apart, dt capped at
\* 33 ms) after its creation: progress 134 * 0.033 * 0.22 = 0.97284, every
\* coordinate swinging 0.004 below its target at velocity 0.001; the next
\* such frame finds it assembled.
nearAssembled(h0) ==
    [h0 EXCEPT !.assembleAmount = 134 * maxDtMs * amountPerMs,
               !.cur = [i \in DOMAIN h0.cur |-> h0.tgt[i] - 4],
               !.vel = [i \in DOMAIN h0.vel |-> 1],
               !.time = 134 * maxDtMs,
               !.lastT = 134 * 40]

\* the scene right after createHeartScene, and close to assembled
HeartStarts(draw) ==
    LET h0 == newHeartScene(InitViewport, draw, 0)
    IN  { [heart |-> h0, now |-> 0],
          [heart |-> nearAssembled(h0), now |-> 134 * 40] }

InitHeart ==
    \E draw \in HeartDraws : \E s0 \in HeartStarts(draw) :
        /\ variant = "buttons"
        /\ now = s0.now
        /\ viewport = InitViewport
        /\ noCtrl = [isFixed |-> FALSE, hidden |-> FALSE, placeholder |-> FALSE,
                     left |-> 0, top |-> 0, scale |-> ScaleOne, lastMove |-> 0]
        /\ modal = [isOpen |-> FALSE, content |-> FALSE, label |-> "", timers |-> <<>>,
                    stylesInjected |-> FALSE]
        /\ audio = [created |-> FALSE, paused |-> TRUE, pending |-> "none"]
        /\ fx = [hearts |-> <<>>, running |-> FALSE, lastT |-> 0, raf |-> 0]
        /\ heart = s0.heart
        /\ lastOp = [op |-> "init", at |-> "", outcome |-> ""]
        /\ steps = 0

HeartOnly == UNCHANGED <<variant, noCtrl, modal, audio, fx>>

\* the first frame callback runs in a frame that began before lastT was
\* read: its timestamp is earlier than lastT
HeartFirstFrame(lag) ==
    /\ steps < MaxHeartSteps
    /\ heart.raf > 0
    /\ lastOp.op = "init" /\ heart.time = 0 /\ heart.lastT = now
    /\ heart' = tick([heart EXCEPT !.raf = @ - 1], now - lag)
    /\ Did("frame", "early", IF heart.disposed THEN "disposed" ELSE "live")
    /\ UNCHANGED <<now, viewport>> /\ HeartOnly

\* the browser runs the requested frame callback
HeartFrame(d) ==
    /\ steps < MaxHeartSteps
    /\ heart.raf > 0
    /\ now' = now + d
    /\ heart' = tick([heart EXCEPT !.raf = @ - 1], now + d)
    /\ Did("frame", "", IF heart.disposed THEN "disposed" ELSE "live")
    /\ UNCHANGED viewport /\ HeartOnly

HeartPulse ==
    /\ steps < MaxHeartSteps
    /\ heart' = pulse(heart)
    /\ Did("pulse", "", "")
    /\ UNCHANGED <<now, viewport>> /\ HeartOnly

HeartResize(vp, draw) ==
    /\ steps < MaxHeartSteps
    /\ vp # viewport
    /\ viewport' = vp
    /\ heart' = resize(heart, vp, draw)
    /\ Did("resize", "", "")
    /\ UNCHANGED now /\ HeartOnly

HeartDestroy ==
    /\ steps < MaxHeartSteps
    /\ heart' = destroy(heart)
    /\ Did("destroy", "", "")
    /\ UNCHANGED <<now, viewport>> /\ HeartOnly

NextHeart ==
    \/ \E d \in FrameSteps : HeartFrame(d)
    \/ HeartPulse
    \/ \E vp \in HeartViewports : \E draw \in HeartDraws : HeartResize(vp, draw)
    \/ HeartDestroy
    \/ \E lag \in HeartFrameLags : HeartFirstFrame(lag)

SpecHeart == InitHeart /\ [][NextHeart]_vars

----------------------------------------------------------------------------
(* Hearts FX emitter on its own: burst() and tease() called at any time,   *)
(* and the browser running the frame callbacks the emitter requested.      *)
(* createHeartsFx is the same code in both builds.  Spawns are counted     *)
(* against MaxFxSpawns; the frames run until the emitter stops requesting  *)
(* them.  The initial states are the idle emitter some time after load and *)
(* emitters in mid flight, each computed by running fxTick on a burst.     *)

MaxFxSpawns == 1

\* Math.random() draws of one spawned heart: thrown straight up (it stays
\* on screen until its life ends), and thrown fast to the right, to the
\* left and downwards with the longest life
drawUp == [cos |-> 0, sin |-> -1000, speed |-> 500, up |-> 100, g |-> 700, life |-> 1000]
drawRight == [cos |-> 1000, sin |-> 0, speed |-> 819, up |-> 80, g |-> 520, life |-> 1349]
drawLeft == [cos |-> -1000, sin |-> 0, speed |-> 819, up |-> 80, g |-> 520, life |-> 1349]
drawDown == [cos |-> 0, sin |-> 1000, speed |-> 819, up |-> 80, g |-> 920, life |-> 1349]

FxSpawnDraws == {drawUp, drawRight}

\* where the pointer presses the NO button for a tease
TeaseAt == { <<700, 300>> }

\* ms between two frames: a 60 Hz frame, and a late frame beyond the dt cap
FxFrameSteps == {16, 40}

\* ms by which the frame that runs the first callback began before the
\* handler that called start() read performance.now()
FxFrameLags == {4}

\* the emitter and the clock after n more frames, d ms apart
RECURSIVE runFrames(_, _, _, _, _)
runFrames(f, t, vp, d, n) ==
    IF n = 0 \/ f.raf = 0 THEN [fx |-> f, now |-> t]
    ELSE runFrames(fxTick([f EXCEPT !.raf = @ - 1], t + d, vp), t + d, vp, d, n - 1)

idleFx == [hearts |-> <<>>, running |-> FALSE, lastT |-> 0, raf |-> 0]

\* a burst of hearts of draw d at 60 ms after load, n late frames on
inFlight(d, n) ==
    runFrames(burst(idleFx, InitViewport, [i \in 1..MaxSpawn |-> d], 60), 60,
              InitViewport, 40, n)

FxStarts ==
    { [fx |-> idleFx, now |-> 60],
      inFlight(drawUp, 28), inFlight(drawRight, 18), inFlight(drawLeft, 18),
      inFlight(drawDown, 10) }

InitFx ==
    \E s0 \in FxStarts : \E draw \in HeartDraws :
        /\ variant = "buttons"
        /\ now = s0.now
        /\ viewport = InitViewport
        /\ noCtrl = [isFixed |-> FALSE, hidden |-> FALSE, placeholder |-> FALSE,
                     left |-> 0, top |-> 0, scale |-> ScaleOne, lastMove |-> 0]
        /\ modal = [isOpen |-> FALSE, content |-> FALSE, label |-> "", timers |-> <<>>,
                    stylesInjected |-> FALSE]
        /\ audio = [created |-> FALSE, paused |-> TRUE, pending |-> "none"]
        /\ fx = s0.fx
        /\ heart = newHeartScene(InitViewport, draw, 0)
        /\ lastOp = [op |-> "init", at |-> "", outcome |-> ""]
        /\ steps = 0

FxOnly == UNCHANGED <<variant, noCtrl, modal, audio, heart>>

\* history of a frame: what the timestamp was like or why particles went
\* ("early", "spent", "offscreen"), and what is left of the set
DidFrame(ts) ==
    /\ lastOp' = [op |-> "frame",
                  at |-> IF ts < fx.lastT THEN "early"
                         ELSE IF \E i \in 1..Len(fx.hearts) :
                                     fade(stepHeart(fx.hearts[i], frameDt(fx, ts))) <= 0
                              THEN "spent"
                         ELSE IF Len(fx'.hearts) < Len(fx.hearts) THEN "offscreen"
                         ELSE "",
                  outcome |-> IF Len(fx'.hearts) = 0 THEN "empty"
                              ELSE IF Len(fx'.hearts) < Len(fx.hearts) THEN "fewer"
                              ELSE "live"]
    /\ UNCHANGED steps

spawnOutcome == IF fx.running THEN "running" ELSE "started"

FxBurst(draws) ==
    /\ steps < MaxFxSpawns
    /\ fx' = burst(fx, viewport, draws, now)
    /\ Did("burst", "", spawnOutcome)
    /\ UNCHANGED <<now, viewport>> /\ FxOnly

FxTease(at, draws) ==
    /\ steps < MaxFxSpawns
    /\ fx' = tease(fx, at[1], at[2], viewport, draws, now)
    /\ Did("tease", "", spawnOutcome)
    /\ UNCHANGED <<now, viewport>> /\ FxOnly

\* the browser runs a requested frame callback d ms after the last event
FxFrame(d) ==
    /\ fx.raf > 0
    /\ now' = now + d
    /\ fx' = fxTick([fx EXCEPT !.raf = @ - 1], now + d, viewport)
    /\ DidFrame(now + d)
    /\ UNCHANGED viewport /\ FxOnly

\* the callback requested by start() runs in the frame that had begun before
\* the spawning handler: its timestamp is earlier than start()'s lastT
FxFrameSameFrame(lag) ==
    /\ fx.raf > 0
    /\ lastOp.op \in {"burst", "tease"} /\ lastOp.outcome = "started"
    /\ fx' = fxTick([fx EXCEPT !.raf = @ - 1], now - lag, viewport)
    /\ DidFrame(now - lag)
    /\ UNCHANGED <<now, viewport>> /\ FxOnly

NextFx ==
    \/ \E draws \in [1..MaxSpawn -> FxSpawnDraws] : FxBurst(draws)
    \/ \E at \in TeaseAt : \E draws \in [1..MaxSpawn -> FxSpawnDraws] : FxTease(at, draws)
    \/ \E d \in FxFrameSteps : FxFrame(d)
    \/ \E lag \in FxFrameLags : FxFrameSameFrame(lag)

SpecFx == InitFx /\ [][NextFx]_vars

\* The emitter under a display that delivers every requested frame: steady
\* 60 Hz frames, with the first callback after start() possibly early (same
\* frame) or late.  requestAnimationFrame runs every requested callback, so
\* the steady frame is weakly fair.
SteadyFrameSteps == {16}

FxLateStart(d) ==
    /\ lastOp.op \in {"burst", "tease"} /\ lastOp.outcome = "started"
    /\ FxFrame(d)

NextFxFair ==
    \/ \E draws \in [1..MaxSpawn -> FxSpawnDraws] : FxBurst(draws)
    \/ \E at \in TeaseAt : \E draws \in [1..MaxSpawn -> FxSpawnDraws] : FxTease(at, draws)
    \/ \E d \in SteadyFrameSteps : FxFrame(d)
    \/ \E d \in FxFrameSteps \ SteadyFrameSteps : FxLateStart(d)
    \/ \E lag \in FxFrameLags : FxFrameSameFrame(lag)

SpecFxFair ==
    InitFx /\ [][NextFxFair]_vars /\ WF_vars(\E d \in SteadyFrameSteps : FxFrame(d))

----------------------------------------------------------------------------
(* Properties of the NO controller (SpecCtl) *)

\* C1: while the controller is hidden, a call of runAwayFrom (forced or not),
\* shrinkHover, shrinkPress or reclamp changes none of left, top, scale, the
\* pinned flag and the throttle timestamp lastMove.
C1_HiddenNoOp ==
    [][(/\ noCtrl.hidden
        /\ lastOp'.op \in {"run", "runForced", "shrinkHover", "shrinkPress", "reclamp"})
       => /\ noCtrl'.left = noCtrl.left
          /\ noCtrl'.top = noCtrl.top
          /\ noCtrl'.scale = noCtrl.scale
          /\ noCtrl'.isFixed = noCtrl.isFixed
          /\ noCtrl'.lastMove = noCtrl.lastMove]_vars

\* shrinkHover was called on a hidden controller that is pinned and shrunk
C1_Witness ==
    /\ noCtrl.hidden /\ noCtrl.isFixed /\ noCtrl.scale < ScaleOne
    /\ lastOp.op = "shrinkHover"

\* C5: minScale <= scale <= 1 in every state; no operation but restore()
\* raises scale; shrinkHover multiplies it by 0.90 and shrinkPress by 0.85,
\* each floored at minScale.
C5_ScaleRange ==
    [][/\ minScale <= noCtrl.scale /\ noCtrl.scale <= ScaleOne
       /\ minScale <= noCtrl'.scale /\ noCtrl'.scale <= ScaleOne
       /\ (lastOp'.op # "restore" => noCtrl'.scale <= noCtrl.scale)
       /\ (lastOp'.op = "shrinkHover" /\ ~noCtrl.hidden
             => noCtrl'.scale = Max2(minScale, RoundDiv(noCtrl.scale * 90, 100)))
       /\ (lastOp'.op = "shrinkPress" /\ ~noCtrl.hidden
             => noCtrl'.scale = Max2(minScale, RoundDiv(noCtrl.scale * 85, 100)))]_vars

\* shrinkPress has brought the scale down to the floor
C5_Witness ==
    /\ lastOp.op = "shrinkPress" /\ ~noCtrl.hidden /\ noCtrl.scale = minScale

\* C6: after a runAwayFrom that moved the button and after a reclamp of a
\* pinned visible button, in a viewport at least as large as the button's
\* footprint plus twice the padding: 12 <= left <= vw - width - 12 and
\* 12 <= top <= vh - height - 12.
C6_InBounds ==
    LET rect == getRect(noCtrl, viewport)
        acted == \/ /\ lastOp.op \in {"run", "runForced"}
                    /\ lastOp.outcome \in {"moved", "stuck"}
                 \/ /\ lastOp.op = "reclamp" /\ noCtrl.isFixed /\ ~noCtrl.hidden
        roomy == /\ viewport.w >= rect.width + 2 * 12
                 /\ viewport.h >= rect.height + 2 * 12
    IN  (acted /\ roomy)
        => /\ 12 <= noCtrl.left /\ noCtrl.left <= viewport.w - rect.width - 12
           /\ 12 <= noCtrl.top /\ noCtrl.top <= viewport.h - rect.height - 12

\* a move of a shrunk button that the clamp stopped at the right bound
C6_Witness ==
    /\ lastOp.op \in {"run", "runForced"} /\ lastOp.outcome = "moved"
    /\ noCtrl.scale < ScaleOne
    /\ viewport.w >= getRect(noCtrl, viewport).width + 2 * 12
    /\ viewport.h >= getRect(noCtrl, viewport).height + 2 * 12
    /\ noCtrl.left = viewport.w - getRect(noCtrl, viewport).width - 12

\* the reclamp of the loaded buttons module
reclampOf(c, vp) == IF variant = "buttons" THEN reclamp(c, vp) ELSE P0_reclamp(c, vp)

\* C10: a second reclamp() right after a reclamp(), viewport and footprint
\* unchanged, yields the same left and top; reclamp() of a controller that is
\* not pinned changes nothing.
C10_ReclampIdempotent ==
    [][lastOp'.op = "reclamp"
       => /\ reclampOf(noCtrl', viewport') = noCtrl'
          /\ (~noCtrl.isFixed => noCtrl' = noCtrl)]_vars

\* a reclamp of a pinned visible button in a window that has been narrowed
C10_Witness ==
    /\ lastOp.op = "reclamp" /\ noCtrl.isFixed /\ ~noCtrl.hidden
    /\ viewport.w = 400
    /\ noCtrl.left = viewport.w - getRect(noCtrl, viewport).width - 12

\* C7: a non-forced runAwayFrom less than 120 ms after the last accepted
\* threat event is discarded without a state change; forced calls are never
\* throttled; the cooldown runs from the last event that was acted upon, so
\* the throttle timestamp moves only when the button is moved.
C7_CooldownFromLastActed ==
    [][/\ (lastOp'.op = "run" /\ ~noCtrl.hidden /\ now - noCtrl.lastMove < 120
             => noCtrl' = noCtrl)
       /\ (lastOp'.op = "runForced" => lastOp'.outcome # "throttled")
       /\ (noCtrl'.lastMove # noCtrl.lastMove
             => lastOp'.outcome \in {"moved", "stuck"})]_vars

\* C9: a forced threat on the centre of a visible button takes the stuck
\* recovery path, and the button does not stay where it was.
C9_StuckRecovery ==
    [][(lastOp'.op = "runForced" /\ lastOp'.at = "centre" /\ ~noCtrl.hidden)
       => /\ lastOp'.outcome = "stuck"
          /\ getRect(noCtrl', viewport') # getRect(noCtrl, viewport)]_vars

\* C11: restore(), called in any controller state, leaves the controller
\* Idle: visible, not pinned, at scale 1, without placeholder, and back at
\* its layout rect (no inline position left).
C11_RestoreToIdle ==
    lastOp.op = "restore"
    => /\ ~noCtrl.hidden /\ ~noCtrl.isFixed /\ ~noCtrl.placeholder
       /\ noCtrl.scale = ScaleOne
       /\ getRect(noCtrl, viewport) =
             [left |-> LayoutLeft(viewport), top |-> LayoutTop(viewport),
              width |-> noBtnBox.width, height |-> noBtnBox.height]

\* restore() has run on a controller that had been pinned away from its
\* layout position
C11_Witness ==
    /\ lastOp.op = "restore"
    /\ noCtrl.left # 0 /\ noCtrl.left # LayoutLeft(viewport)

\* C14: a pinned controller stays pinned across runAwayFrom, reclamp,
\* shrinkHover, shrinkPress and hide; only restore() unpins it.
C14_PinnedUntilRestore ==
    [][(noCtrl.isFixed /\ lastOp'.op # "restore") => noCtrl'.isFixed]_vars

\* hide() has run on a pinned controller, which is still pinned
C14_Witness ==
    /\ lastOp.op = "hide" /\ noCtrl.isFixed /\ noCtrl.hidden

\* C12: shrinkHover and shrinkPress change neither left, top nor the pinned
\* flag; runAwayFrom and reclamp do not change scale; and the position a
\* reclamp reaches, clamp bounds included, is the one it would reach at
\* scale 1.
C12_ShrinkPositionIndependent ==
    [][/\ (lastOp'.op \in {"shrinkHover", "shrinkPress"}
             => /\ noCtrl'.left = noCtrl.left /\ noCtrl'.top = noCtrl.top
                /\ noCtrl'.isFixed = noCtrl.isFixed)
       /\ (lastOp'.op \in {"run", "runForced", "reclamp"}
             => noCtrl'.scale = noCtrl.scale)
       /\ (lastOp'.op = "reclamp"
             => LET atOne == reclampOf([noCtrl EXCEPT !.scale = ScaleOne], viewport)
                IN  noCtrl'.left = atOne.left /\ noCtrl'.top = atOne.top)]_vars

\* C13 (as stated): a threat event on a visible controller that is not yet
\* pinned pins it before the throttle and the distance check: after the
\* event the controller is pinned, and if the event was discarded it sits
\* at the captured layout rect's left and top.
C13_PinBeforeThrottle ==
    [][(/\ lastOp'.op \in {"run", "runForced"}
        /\ ~noCtrl.hidden /\ ~noCtrl.isFixed)
       => /\ noCtrl'.isFixed
          /\ (lastOp'.outcome \in {"throttled", "far"}
                => /\ noCtrl'.left = getRect(noCtrl, viewport).left
                   /\ noCtrl'.top = getRect(noCtrl, viewport).top)]_vars

\* C13 (amended): a threat event on a visible controller that is not yet
\* pinned changes nothing if the throttle discards it; an event that
\* passes the throttle pins the controller, and if the distance check then
\* discards it the controller sits at the captured layout rect's left and
\* top.
C13_PinAfterThrottle ==
    [][(/\ lastOp'.op \in {"run", "runForced"}
        /\ ~noCtrl.hidden /\ ~noCtrl.isFixed)
       => /\ (lastOp'.outcome = "throttled" => noCtrl' = noCtrl)
          /\ (lastOp'.outcome # "throttled" => noCtrl'.isFixed /\ noCtrl'.placeholder)
          /\ (lastOp'.outcome = "far"
                => /\ noCtrl'.left = getRect(noCtrl, viewport).left
                   /\ noCtrl'.top = getRect(noCtrl, viewport).top)]_vars

\* a far threat got past the throttle and pinned the controller where it
\* lay in the layout
C13_Witness ==
    /\ lastOp.op = "run" /\ lastOp.outcome = "far"
    /\ noCtrl.isFixed /\ noCtrl.left = LayoutLeft(viewport)
    /\ noCtrl.lastMove > 0

----------------------------------------------------------------------------
(* Properties of the hearts FX emitter (SpecFx, SpecFxFair) *)

\* the particles of the set before a frame, as the frame's integration step
\* leaves them
movedBy(f, f1) ==
    [i \in 1..Len(f.hearts) |->
        stepHeart(f.hearts[i], Min2(f1.lastT - f.lastT, fxMaxDtMs))]

\* age has reached the lifetime, or the particle is beyond the margins
spentOrOut(p, vp) ==
    \/ p.t >= p.life
    \/ p.y > vp.h + 120
    \/ p.x < -140
    \/ p.x > vp.w + 140

\* C15: a frame of the emitter removes a particle exactly when, after the
\* frame's integration step, its age has reached its lifetime or it is
\* beyond the off-screen margin (y > h + 120, x < -140, x > w + 140): the
\* set after the frame is, in order, the moved particles for which neither
\* holds.
C15_RemovedExactlyWhen ==
    [][lastOp'.op = "frame"
       => /\ \A i \in 1..Len(fx'.hearts) : ~spentOrOut(fx'.hearts[i], viewport)
          /\ fx'.hearts = SelectSeq(movedBy(fx, fx'),
                                    LAMBDA p : ~spentOrOut(p, viewport))]_vars

\* a frame took a particle that went off screen and left a younger one
C15_Witness ==
    lastOp.op = "frame" /\ lastOp.at = "offscreen" /\ lastOp.outcome = "fewer"

\* C16: the age t of every particle that stays in the set does not decrease
\* over a frame, whatever the frame's timestamp.
C16_AgeMonotone ==
    [][(lastOp'.op = "frame" /\ Len(fx'.hearts) = Len(fx.hearts))
       => \A i \in 1..Len(fx.hearts) : fx'.hearts[i].t >= fx.hearts[i].t]_vars

\* C17: every particle of the set is younger than its lifetime, which is at
\* most 1.35 s, so none is left once the frames since the last spawn have
\* stepped more than 1.35 s; and when the requested frames are run, a
\* non-empty set eventually becomes empty.
C17_EmptiesAfterMaxLife ==
    /\ [](\A i \in 1..Len(fx.hearts) :
             fx.hearts[i].t < fx.hearts[i].life /\ fx.hearts[i].life <= lifeMaxMs)
    /\ ((Len(fx.hearts) > 0) ~> (Len(fx.hearts) = 0))

\* a frame emptied the set by taking a particle whose age had reached its
\* lifetime, after a spawn of this run
C17_Witness ==
    /\ lastOp.op = "frame" /\ lastOp.at = "spent" /\ lastOp.outcome = "empty"
    /\ steps > 0

\* C18: a frame that leaves the set empty clears running and leaves no frame
\* requested; a frame that leaves it non-empty stays running with exactly
\* one frame requested; a spawn on a stopped emitter sets running and
\* requests one frame, a spawn on a running one requests none.
C18_SelfTerminates ==
    [][/\ (lastOp'.op = "frame" /\ Len(fx'.hearts) = 0)
             => (~fx'.running /\ fx'.raf = 0)
       /\ (lastOp'.op = "frame" /\ Len(fx'.hearts) > 0)
             => (fx'.running /\ fx'.raf = 1)
       /\ lastOp'.op \in {"burst", "tease"}
             => /\ fx'.running /\ fx'.raf = 1
                /\ (fx.running => fx.raf = 1)
                /\ (~fx.running => fx.raf = 0)]_vars

\* a spawn restarted an emitter that had run and stopped itself
C18_Witness ==
    /\ lastOp.op \in {"burst", "tease"} /\ lastOp.outcome = "started"
    /\ now > 60 /\ fx.running /\ fx.raf = 1


\* C27: in every state of the emitter, however burst(), tease() and the
\* frames interleave, at most one frame callback is pending, and running is
\* true exactly when one is.
C27_OneFramePending ==
    /\ fx.raf \in {0, 1}
    /\ (fx.running <=> fx.raf = 1)

\* a spawn arrived while the emitter was running, with particles of an
\* earlier spawn still in the set
C27_Witness ==
    /\ lastOp.op \in {"burst", "tease"} /\ lastOp.outcome = "running"
    /\ Len(fx.hearts) > MaxSpawn /\ fx.raf = 1

----------------------------------------------------------------------------
(* Properties of the page (Spec) *)

\* C2: once the modal has been closed after a YES click hid the NO button,
\* the button is visible again, in normal layout (not pinned), at scale 1.
C2_RestoredAfterClose ==
    (variant = "buttons" /\ lastOp.op = "close" /\ lastOp.outcome = "closed")
    => (~noCtrl.hidden /\ ~noCtrl.isFixed /\ noCtrl.scale = ScaleOne)

\* C4: when the YES click handler has completed with playback permitted, a
\* burst has been spawned, the modal is open, the NO button is hidden and the
\* music is playing, whatever the state before the click.
C4_YesStartsEverything ==
    (/\ variant = "buttons"
     /\ \/ lastOp.op = "yes" /\ lastOp.outcome = "toggledOff"
        \/ lastOp.op = "yesResumed" /\ lastOp.outcome = "played")
    => /\ fx.hearts # <<>> /\ fx.running
       /\ modal.isOpen
       /\ noCtrl.hidden
       /\ ~audio.paused

\* C8: a non-forced threat 500 px from the button's centre, beyond every
\* danger radius, leaves the button where it is: its rect on screen is the
\* same, and so are left and top of a pinned button.
C8_FarThreatNoMove ==
    [][(lastOp'.op = "pointermove" /\ lastOp'.at = "far")
       => /\ getRect(noCtrl', viewport') = getRect(noCtrl, viewport)
          /\ (noCtrl.isFixed
                => noCtrl'.left = noCtrl.left /\ noCtrl'.top = noCtrl.top)]_vars

\* a far pointermove got past the throttle and was dropped by the distance
\* check, on a pinned button that has been shrunk
C8_Witness ==
    /\ lastOp.op = "pointermove" /\ lastOp.at = "far" /\ lastOp.outcome = "far"
    /\ noCtrl.isFixed /\ noCtrl.scale < ScaleOne


\* C29: while the modal is open, a pointermove, pointerenter or pointerdown
\* event leaves the NO controller (position, pinned flag, scale, lastMove and
\* the rest of its state) as it was and spawns no tease hearts.
C29_PointerIgnoredWhileOpen ==
    [][(modal.isOpen /\ lastOp'.op \in {"pointermove", "pointerenter", "pointerdown"})
       => /\ noCtrl' = noCtrl
          /\ fx' = fx
          /\ lastOp'.outcome = "modal"]_vars

\* a press on the pinned NO button arrived while the modal was open
C29_Witness ==
    /\ variant = "part_000"
    /\ lastOp.op = "pointerdown" /\ lastOp.outcome = "modal"
    /\ modal.isOpen /\ modal.content
    /\ noCtrl.isFixed


\* C31: while the modal is open, no play() promise is awaited and none has
\* just failed, the music button's label matches the playback state: it reads
\* "Stop music" exactly when the audio is playing and "Play music" exactly
\* when it is paused.
C31_LabelMatchesPlayback ==
    (modal.isOpen /\ audio.pending = "none" /\ lastOp.outcome # "failed")
    => /\ (modal.label = "Stop music") <=> ~audio.paused
       /\ (modal.label = "Play music") <=> audio.paused

----------------------------------------------------------------------------
(* Properties of the modal (SpecModal) *)

\* C30: whenever the modal reports isOpen() true, its dialog content (the
\* backdrop with the close and music buttons) is present in the root element,
\* however open(), close() and the cleanup timers of close() interleave.
C30_OpenHasContent == modal.isOpen => modal.content

----------------------------------------------------------------------------
(* Properties of the heart scene (SpecHeart) *)

\* C3: after destroy(), a frame callback requests no further frame and
\* changes no particle state.
C3_DestroyStopsTicks ==
    [][(heart.disposed /\ lastOp'.op = "frame")
       => /\ heart'.raf = 0
          /\ heart'.cur = heart.cur
          /\ heart'.vel = heart.vel
          /\ heart'.assembleAmount = heart.assembleAmount]_vars


\* C19: assembleAmount lies in [0, 1] after every step, and a step lowers it
\* only when it is a resize that rebuilds the heart, which resets it to 0.
C19_ProgressMonotone ==
    [][/\ heart'.assembleAmount >= 0 /\ heart'.assembleAmount <= AmountOne
       /\ \/ heart'.assembleAmount >= heart.assembleAmount
          \/ /\ lastOp'.op = "resize" /\ heart'.quality # heart.quality
             /\ heart'.assembleAmount = 0]_vars

\* C20: a step clears assembled only when it is a resize that changes the
\* quality tier and so rebuilds the heart; frames, pulse() and resizes
\* within the tier keep it.
C20_AssembledSticks ==
    [][(heart.assembled /\ ~heart'.assembled)
       => (lastOp'.op = "resize" /\ heart'.quality # heart.quality)]_vars

\* an assembled heart was resized within its quality tier
C20_Witness ==
    /\ heart.assembled /\ lastOp.op = "resize"
    /\ viewport # InitViewport /\ heart.pulseBoost > 0


\* sum over the modelled coordinates of |target - position|, against the
\* threshold 0.09 per particle
meanErrorBelow(h) ==
    Len(h.cur) > 0 /\ sumAbsDiff(h.tgt, h.cur, Len(h.cur)) < 90 * (Len(h.cur) \div 3)

\* C21: a frame that runs the assembly step leaves assembled true if and
\* only if the progress it leaves is at least 0.98 and the mean absolute
\* per-axis error of the positions it leaves is below 0.09.
C21_ConvergedIff ==
    [][(lastOp'.op = "frame" /\ ~heart.assembled)
       => (heart'.assembled
             <=> (heart'.assembleAmount >= 980000 /\ meanErrorBelow(heart')))]_vars

\* a frame found the heart assembled: progress just above 0.98, positions
\* within the error
C21_Witness ==
    /\ lastOp.op = "frame" /\ heart.assembled
    /\ heart.assembleAmount > 980000 /\ meanErrorBelow(heart)


\* C22: a frame on an assembled heart changes no particle position, no
\* velocity, no target and not the progress; it advances the animation
\* time and decays the pulse.
C22_FrozenOnceAssembled ==
    [][(heart.assembled /\ lastOp'.op = "frame")
       => /\ heart'.cur = heart.cur
          /\ heart'.vel = heart.vel
          /\ heart'.tgt = heart.tgt
          /\ heart'.assembleAmount = heart.assembleAmount
          /\ heart'.assembled
          /\ heart'.time > heart.time
          /\ heart'.pulseBoost <= heart.pulseBoost]_vars

\* a frame ran on a heart that an earlier frame had found assembled, while
\* a pulse was decaying
C22_Witness ==
    /\ lastOp.op = "frame" /\ heart.assembled
    /\ heart.time >= 4500
    /\ heart.pulseBoost > 0 /\ heart.pulseBoost < pulseStep


\* C24: computeQuality is a monotone non-decreasing step function of the
\* window width with the tiers 3800 / 6500 / 10000 / 12000 hearts (900 /
\* 1200 / 1700 / 2200 stars) starting at widths 0, 520, 780 and 1100; the
\* scene of a 1200 wide window has at least 10000 hearts, that of a 400
\* wide one fewer than 4000.
C24_QualityTiers ==
    /\ \A w1, w2 \in QualityWidths :
          w1 <= w2 => /\ computeQuality(w1).heartCount <= computeQuality(w2).heartCount
                      /\ computeQuality(w1).starsCount <= computeQuality(w2).starsCount
    /\ computeQuality(519) = [heartCount |-> 3800, starsCount |-> 900]
    /\ computeQuality(520) = [heartCount |-> 6500, starsCount |-> 1200]
    /\ computeQuality(779) = [heartCount |-> 6500, starsCount |-> 1200]
    /\ computeQuality(780) = [heartCount |-> 10000, starsCount |-> 1700]
    /\ computeQuality(1099) = [heartCount |-> 10000, starsCount |-> 1700]
    /\ computeQuality(1100) = [heartCount |-> 12000, starsCount |-> 2200]
    /\ (viewport.w = 1200 => heart.quality.heartCount >= 10000)
    /\ (viewport.w = 400 => heart.quality.heartCount < 4000)

\* the window was resized to 1200 wide and the scene rebuilt in the top tier
C24_Witness ==
    /\ lastOp.op = "resize" /\ viewport.w = 1200
    /\ heart.quality.heartCount = 12000 /\ heart.stars = 2200


\* C25: a resize rebuilds the field exactly when the tier of the new width
\* differs from the current one: then the buffers are new and of the new
\* tier's size, the velocities zero, the progress 0 and assembled false;
\* otherwise the scene is unchanged.  After every step the tier is that of
\* the current width and the three buffers have the tier's size.
C25_RebuildOnTierChange ==
    [][/\ lastOp'.op = "resize"
          => IF computeQuality(viewport'.w) # heart.quality
             THEN /\ heart'.assembleAmount = 0 /\ ~heart'.assembled
                  /\ \A i \in 1..Len(heart'.vel) : heart'.vel[i] = 0
                  /\ \E draw \in HeartDraws :
                        \A i \in 1..Len(heart'.cur) :
                            heart'.cur[i] = draw.cur[i] /\ heart'.tgt[i] = draw.tgt[i]
                  /\ heart'.stars = computeQuality(viewport'.w).starsCount
             ELSE heart' = heart
       /\ heart'.quality = computeQuality(viewport'.w)
       /\ Len(heart'.cur) = fieldLen(heart'.quality)
       /\ Len(heart'.vel) = fieldLen(heart'.quality)
       /\ Len(heart'.tgt) = fieldLen(heart'.quality)]_vars

\* a resize to another tier rebuilt a heart that frames had been assembling
C25_Witness ==
    /\ lastOp.op = "resize" /\ viewport.w = 400
    /\ heart.time > 0 /\ heart.assembleAmount = 0
    /\ heart.quality.heartCount = 3800


\* C26: pulseBoost lies in [0, 2.5] after every step; pulse() adds 1.2
\* capped at 2.5; a frame never raises it and lowers it by 0.9 per second
\* of its dt, floored at 0; no other step changes it.  (The claim's return
\* to baseline follows from the frames lowering it.)
C26_PulseDecays ==
    [][/\ heart'.pulseBoost >= 0 /\ heart'.pulseBoost <= 2500
       /\ lastOp'.op = "pulse"
             => heart'.pulseBoost = Min2(heart.pulseBoost + 1200, 2500)
       /\ lastOp'.op = "frame"
             => /\ heart'.pulseBoost <= heart.pulseBoost
                /\ heart'.pulseBoost =
                      Max2(0, heart.pulseBoost - RoundDiv((heart'.time - heart.time) * 9, 10))
       /\ lastOp'.op \notin {"pulse", "frame"}
             => heart'.pulseBoost = heart.pulseBoost]_vars


\* C28: in every state, however resizes and frames interleave, exactly one
\* frame callback of the scene is pending, the three buffers were allocated
\* by the same (the latest) rebuild, and each has the length of the current
\* quality's field, so a frame indexes within them.
C28_OneChainOneField ==
    /\ heart.raf = 1
    /\ heart.built = [tgt |-> heart.gen, cur |-> heart.gen, vel |-> heart.gen]
    /\ Len(heart.tgt) = fieldLen(heart.quality)
    /\ Len(heart.cur) = fieldLen(heart.quality)
    /\ Len(heart.vel) = fieldLen(heart.quality)

\* a frame ran on a field that a resize had rebuilt between two frames
C28_Witness ==
    /\ lastOp.op = "frame" /\ heart.gen > 1
    /\ heart.time > 0 /\ heart.assembleAmount > 0
    /\ heart.assembleAmount < 100000

=============================================================================
